---- MODULE Spec2Model ----
(***************************************************************************)
(* Model of migrate-meraki2nile.py: validation of the network against the  *)
(* organization, paginated retrieval of the client list, the interactive   *)
(* VLAN -> segment prompts and the CSV writer.                             *)
(*                                                                         *)
(* Conventions.  A Python value that may be None/absent (dict.get) is an   *)
(* option: None is <<>>, a present value v is <<v>>.  A client record has  *)
(* the fields mac (a string), vlan (an option of an integer) and           *)
(* switchport (an option of a string).  A line of operator input and a     *)
(* segment name are sequences of Unicode code points (32 the blank, 9 the  *)
(* tab, 13 the carriage return, 97 the letter a), so that str.strip() is   *)
(* computed and not assumed.                                               *)
(***************************************************************************)
EXTENDS Integers, Sequences, FiniteSets, TLC

VARIABLES
    pc,              \* position of the program
    caller,          \* "main": a run of main(); "direct": a function called on its own
    output,          \* the output file: [exists, rows]
    opened,          \* TRUE once open(output_file, 'w') has been executed
    network_id,      \* args.network_id
    networks,        \* main: the set of ids of the validation response (line 126)
    upstream,        \* the client records the upstream API can serve
    timespan,        \* get_all_clients: parameter timespan
    per_page,        \* get_all_clients: parameter per_page
    params,          \* get_all_clients: params['startingAfter'], an option
    requests,        \* every HTTP request issued so far, in order
    pages,           \* every client page received so far, in order
    clients,         \* get_all_clients: the accumulator `clients`
    all_clients,     \* the list get_all_clients returned
    unique_vlans,    \* prompt_for_segments: its argument vlan_set
    todo,            \* prompt_for_segments: what is left of sorted(vlan_set)
    prompts,         \* every prompt issued so far: <<vlan, line entered>>
    mapping,         \* prompt_for_segments: the dict `mapping`
    w_clients,       \* write_migration_csv: parameter clients
    vlan_to_segment, \* write_migration_csv: parameter vlan_to_segment
    idx,             \* write_migration_csv: number of clients the loop has taken
    seen,            \* write_migration_csv: the set `seen`
    src              \* for each data row written, the index in w_clients it came from

vars == <<pc, caller, output, opened, network_id, networks, upstream, timespan,
          per_page, params, requests, pages, clients, all_clients, unique_vlans,
          todo, prompts, mapping, w_clients, vlan_to_segment, idx, seen, src>>

(***************************************************************************)
(* Bounds of the model.                                                    *)
(***************************************************************************)
\* per_page as main() passes it: the default of 1000 (line 8), scaled down.
PerPage == 2
\* The upstream serves at most this many records in one run of main().
MaxFetched == 2
\* get_all_clients called on its own: largest per_page, most records served.
MaxPerPage == 2
MaxServed == 4
\* write_migration_csv called on its own: longest client list.
MaxClients == 3
\* prompt_for_segments called on its own: lines of up to MaxLine characters.
MaxLine == 2

(***************************************************************************)
(* Values.                                                                 *)
(***************************************************************************)
None == <<>>
Some(x) == <<x>>

BoundedSeq(S, n) == UNION {[1..k -> S] : k \in 0..n}

Macs == {"m1", "m2"}
Vlans == {0, 1}
Switchports == {None, Some(""), Some("1")}
\* Every client record over two MACs, VLAN absent/0/1, switchport absent/""/"1".
ClientRecords ==
    [mac : Macs, vlan : {None} \cup {Some(v) : v \in Vlans}, switchport : Switchports]
\* Records that differ in the MAC only: what pagination looks at.
MacRecords ==
    [mac : {"m1", "m2", "m3"}, vlan : {None}, switchport : {None}]

\* VLAN ids of a set handed to prompt_for_segments directly.
PromptVlans == {0, 2, 10}
\* Characters of a line: blank, tab, carriage return, the letter a.
Chars == {32, 9, 13, 97}
Lines == BoundedSeq(Chars, MaxLine)
\* Lines the operator enters in a run of main().
MainLines == {<<>>, <<9, 97>>, <<97, 32, 97, 13>>}
\* Mappings handed to write_migration_csv directly: no VLAN mapped, VLAN 0
\* only, both VLANs.
Mappings ==
    {[v \in D |-> IF v = 0 THEN <<97>> ELSE <<98>>] : D \in {{}, {0}, {0, 1}}}

NetworkIds == {"N1", "N3"}
NetworkLists == {{"N1", "N2"}, {}}
Timespans == {86400, 3600}

NoFile == [exists |-> FALSE, rows |-> <<>>]
StaleFile == [exists |-> TRUE, rows |-> << <<"stale">> >>]

(***************************************************************************)
(* Pure helpers.                                                           *)
(***************************************************************************)
\* A switchport test that takes '' for a port.
Truthy_NotNone(opt) == opt # None

\* Python truthiness of c.get('switchport'): None and '' are falsy.
Truthy(opt) == opt # None /\ opt[1] # ""

IsWired(c) == Truthy(c.switchport)

\* line 139
WiredClients(cs) == SelectSeq(cs, IsWired)

\* VLANs kept by truthiness, which loses VLAN 0.
UniqueVlans_Truthy(ws) ==
    {ws[i].vlan[1] : i \in {j \in DOMAIN ws : ws[j].vlan # None /\ ws[j].vlan[1] # 0}}

\* line 140
UniqueVlans(ws) == {ws[i].vlan[1] : i \in {j \in DOMAIN ws : ws[j].vlan # None}}

Min(S) == CHOOSE x \in S : \A y \in S : x <= y
Max(S) == CHOOSE x \in S : \A y \in S : x >= y

RECURSIVE Sorted_Descending(_)
\* The VLANs in descending order.
Sorted_Descending(S) ==
    IF S = {} THEN <<>> ELSE <<Max(S)>> \o Sorted_Descending(S \ {Max(S)})

RECURSIVE Sorted(_)
\* sorted(vlan_set) on integers
Sorted(S) == IF S = {} THEN <<>> ELSE <<Min(S)>> \o Sorted(S \ {Min(S)})

\* The code points str.strip() takes for whitespace (those of str.isspace()).
Whitespace ==
    {9, 10, 11, 12, 13, 28, 29, 30, 31, 32, 133, 160, 5760} \cup (8192..8202)
        \cup {8232, 8233, 8239, 8287, 12288}

IsSpace(ch) == ch \in Whitespace

RECURSIVE LStrip(_)
LStrip(s) == IF s # <<>> /\ IsSpace(Head(s)) THEN LStrip(Tail(s)) ELSE s

RECURSIVE RStrip(_)
RStrip(s) ==
    IF s # <<>> /\ IsSpace(s[Len(s)]) THEN RStrip(SubSeq(s, 1, Len(s) - 1)) ELSE s

\* str.strip()
Strip(s) == RStrip(LStrip(s))

\* A dedup key that ignores the VLAN.
Key_MacOnly(c) == <<c.mac, None>>

\* line 87
Key(c) == <<c.mac, c.vlan>>

\* A loop that filters on the switchport and never looks at `seen`.
Skip_NoDedup(c, seenset) == ~Truthy(c.switchport)

\* lines 81-89: the two `continue`s of the write loop
Skip(c, seenset) == ~Truthy(c.switchport) \/ Key(c) \in seenset

\* A lookup under a key the mapping never holds: always the default.
SegmentFor_WrongKey(m, vlan) == <<>>

\* line 92: vlan_to_segment.get(vlan, '')
SegmentFor(m, vlan) ==
    IF vlan # None /\ vlan[1] \in DOMAIN m THEN m[vlan[1]] ELSE <<>>

Header ==
    <<"MAC Address (Required)", "Segment (Required for allow state)",
      "Lock to Port (Optional)", "Site (Optional)", "Building (Optional)",
      "Floor (Optional)", "Allow or Deny (Required)", "Description (Optional)",
      "Static IP (Optional)", "IP Address (Optional)", "Passive IP (Optional)">>

\* lines 93-105
Row(mac, segment) ==
    <<mac, segment, "", "", "", "", "Allow", "Imported from migration CSV",
      "No", "", "No">>

EmptyMap == [v \in {} |-> <<>>]

\* The query parameters of one client-list request.
ClientRequest(ts, pp, after) ==
    [kind |-> "clients", timespan |-> Some(ts), perPage |-> Some(pp),
     startingAfter |-> after]

NetworksRequest ==
    [kind |-> "networks", timespan |-> None, perPage |-> None, startingAfter |-> None]

\* The test of line 127 inverted.
NotFound_Inverted(id, ids) == id \in ids

\* line 127
NotFound(id, ids) == id \notin ids

\* A break on a page of per_page records or fewer.
LastPage_OrFull(batch, pp) == Len(batch) <= pp

\* line 33
LastPage(batch, pp) == Len(batch) < pp

\* The cursor taken from the first record of the page.
Cursor_First(batch) == batch[1].mac

\* line 37
Cursor(batch) == batch[Len(batch)].mac

\* Exit status of the process at position p; -1 while it runs.
ExitCode(p) ==
    IF p = "done" THEN 0 ELSE IF p \in {"not_found", "http_error"} THEN 1 ELSE -1

(***************************************************************************)
(* main(), lines 121-128: the validation request.                          *)
(***************************************************************************)
ValidateOk(ids) ==
    /\ pc = "validate"
    /\ requests' = Append(requests, NetworksRequest)
    /\ networks' = ids
    /\ pc' = IF NotFound(network_id, ids) THEN "not_found" ELSE "get_all_clients"
    /\ UNCHANGED <<caller, output, opened, network_id, upstream, timespan, per_page,
                   params, pages, clients, all_clients, unique_vlans, todo, prompts,
                   mapping, w_clients, vlan_to_segment, idx, seen, src>>

\* line 125: raise_for_status() on a failed validation response
ValidateFail ==
    /\ pc = "validate"
    /\ requests' = Append(requests, NetworksRequest)
    /\ pc' = "http_error"
    /\ UNCHANGED <<caller, output, opened, network_id, networks, upstream, timespan,
                   per_page, params, pages, clients, all_clients, unique_vlans, todo,
                   prompts, mapping, w_clients, vlan_to_segment, idx, seen, src>>

(***************************************************************************)
(* get_all_clients, lines 24-40, and what main() does with the result up   *)
(* to the first prompt, lines 137-143 and 47-49.                           *)
(***************************************************************************)
\* The state after get_all_clients returns `result`.
Returned(result) ==
    /\ all_clients' = result
    /\ IF caller = "main"
       THEN LET wired == WiredClients(result)
                vlans == UniqueVlans(wired)
            IN  /\ unique_vlans' = vlans
                /\ todo' = Sorted(vlans)
                /\ w_clients' = wired
                /\ pc' = IF vlans = {} THEN "open" ELSE "prompt"
       ELSE /\ pc' = "returned"
            /\ UNCHANGED <<unique_vlans, todo, w_clients>>

\* One iteration of the loop with a successful response carrying `batch`.
GetPage(batch) ==
    /\ pc = "get_all_clients"
    /\ requests' = Append(requests, ClientRequest(timespan, per_page, params))
    /\ pages' = Append(pages, batch)
    /\ IF batch = <<>>
       THEN /\ Returned(clients)
            /\ UNCHANGED <<clients, params>>
       ELSE /\ clients' = clients \o batch
            /\ IF LastPage(batch, per_page)
               THEN /\ Returned(clients \o batch)
                    /\ UNCHANGED params
               ELSE /\ params' = Some(Cursor(batch))
                    /\ UNCHANGED <<pc, all_clients, unique_vlans, todo, w_clients>>
    /\ UNCHANGED <<caller, output, opened, network_id, networks, upstream, timespan,
                   per_page, prompts, mapping, vlan_to_segment, idx, seen, src>>

\* A failed page response taken for the end of the list.
GetFail_Swallow ==
    /\ pc = "get_all_clients"
    /\ requests' = Append(requests, ClientRequest(timespan, per_page, params))
    /\ Returned(clients)
    /\ UNCHANGED <<caller, output, opened, network_id, networks, upstream, timespan,
                   per_page, params, pages, clients, prompts, mapping,
                   vlan_to_segment, idx, seen, src>>

\* line 27: raise_for_status() on a failed page response
GetFail ==
    /\ pc = "get_all_clients"
    /\ requests' = Append(requests, ClientRequest(timespan, per_page, params))
    /\ pc' = "http_error"
    /\ UNCHANGED <<caller, output, opened, network_id, networks, upstream, timespan,
                   per_page, params, pages, clients, all_clients, unique_vlans, todo,
                   prompts, mapping, w_clients, vlan_to_segment, idx, seen, src>>

\* The pages the upstream may answer with: at most per_page records, and no
\* more than it has left to serve.
Fetch ==
    LET cap == IF caller = "main" THEN MaxFetched ELSE MaxServed
        left == cap - Len(clients)
    IN  \E batch \in BoundedSeq(upstream, IF per_page < left THEN per_page ELSE left) :
            GetPage(batch)

(***************************************************************************)
(* prompt_for_segments, lines 47-52.                                       *)
(***************************************************************************)
\* One iteration of the loop: the operator enters `line` at the prompt.
Prompt(line) ==
    /\ pc = "prompt"
    /\ todo # <<>>
    /\ LET vlan == Head(todo)
           m == [v \in DOMAIN mapping \cup {vlan} |->
                    IF v = vlan THEN Strip(line) ELSE mapping[v]]
       IN  /\ prompts' = Append(prompts, <<vlan, line>>)
           /\ mapping' = m
           /\ todo' = Tail(todo)
           /\ IF Tail(todo) # <<>>
              THEN UNCHANGED <<pc, vlan_to_segment>>
              ELSE IF caller = "main"
                   THEN pc' = "open" /\ vlan_to_segment' = m
                   ELSE pc' = "returned" /\ UNCHANGED vlan_to_segment
    /\ UNCHANGED <<caller, output, opened, network_id, networks, upstream, timespan,
                   per_page, params, requests, pages, clients, all_clients,
                   unique_vlans, w_clients, idx, seen, src>>

(***************************************************************************)
(* write_migration_csv, lines 63-105.                                      *)
(***************************************************************************)
\* lines 63-78: open for writing (create or truncate) and write the header
OpenFile ==
    /\ pc = "open"
    /\ seen' = {}
    /\ opened' = TRUE
    /\ output' = [exists |-> TRUE, rows |-> <<Header>>]
    /\ idx' = 0
    /\ src' = <<>>
    /\ pc' = "write"
    /\ UNCHANGED <<caller, network_id, networks, upstream, timespan, per_page, params,
                   requests, pages, clients, all_clients, unique_vlans, todo, prompts,
                   mapping, w_clients, vlan_to_segment>>

\* lines 80-105: one iteration of the loop, or its end
WriteClient ==
    /\ pc = "write"
    /\ IF idx = Len(w_clients)
       THEN /\ pc' = "done"
            /\ UNCHANGED <<idx, seen, output, src>>
       ELSE LET c == w_clients[idx + 1] IN
            /\ idx' = idx + 1
            /\ pc' = pc
            /\ IF Skip(c, seen)
               THEN UNCHANGED <<seen, output, src>>
               ELSE /\ seen' = seen \cup {Key(c)}
                    /\ output' = [output EXCEPT !.rows =
                           Append(@, Row(c.mac, SegmentFor(vlan_to_segment, c.vlan)))]
                    /\ src' = Append(src, idx + 1)
    /\ UNCHANGED <<caller, opened, network_id, networks, upstream, timespan, per_page,
                   params, requests, pages, clients, all_clients, unique_vlans, todo,
                   prompts, mapping, w_clients, vlan_to_segment>>

(***************************************************************************)
(* Specifications.                                                         *)
(***************************************************************************)
\* Everything a run has not touched yet.
Fresh ==
    /\ opened = FALSE
    /\ networks = {}
    /\ params = None
    /\ requests = <<>>
    /\ pages = <<>>
    /\ clients = <<>>
    /\ all_clients = <<>>
    /\ prompts = <<>>
    /\ mapping = EmptyMap
    /\ idx = 0
    /\ seen = {}
    /\ src = <<>>

\* A run of main(), with the default --timespan or another one, the output
\* file absent or left by an earlier run.
Init ==
    /\ pc = "validate"
    /\ caller = "main"
    /\ output \in {NoFile, StaleFile}
    /\ network_id \in NetworkIds
    /\ upstream = ClientRecords
    /\ timespan \in Timespans
    /\ per_page = PerPage
    /\ unique_vlans = {}
    /\ todo = <<>>
    /\ w_clients = <<>>
    /\ vlan_to_segment = EmptyMap
    /\ Fresh

Next ==
    \/ \E ids \in NetworkLists : ValidateOk(ids)
    \/ ValidateFail
    \/ Fetch
    \/ GetFail
    \/ \E line \in MainLines : Prompt(line)
    \/ OpenFile
    \/ WriteClient

Spec == Init /\ [][Next]_vars

\* get_all_clients called on its own, with any per_page and timespan.
InitFetch ==
    /\ pc = "get_all_clients"
    /\ caller = "direct"
    /\ output = NoFile
    /\ network_id = "N1"
    /\ upstream = MacRecords
    /\ timespan \in Timespans
    /\ per_page \in 1..MaxPerPage
    /\ unique_vlans = {}
    /\ todo = <<>>
    /\ w_clients = <<>>
    /\ vlan_to_segment = EmptyMap
    /\ Fresh

NextFetch ==
    \/ Fetch
    \/ GetFail

SpecFetch == InitFetch /\ [][NextFetch]_vars

\* Every request is answered: the loop is never left hanging.
FairSpecFetch == SpecFetch /\ WF_vars(NextFetch)

\* prompt_for_segments called on its own with any set of VLAN ids.
InitPrompt ==
    /\ caller = "direct"
    /\ output = NoFile
    /\ network_id = "N1"
    /\ upstream = {}
    /\ timespan = 86400
    /\ per_page = PerPage
    /\ unique_vlans \in SUBSET PromptVlans
    /\ todo = Sorted(unique_vlans)
    /\ pc = IF unique_vlans = {} THEN "returned" ELSE "prompt"
    /\ w_clients = <<>>
    /\ vlan_to_segment = EmptyMap
    /\ Fresh

NextPrompt == \E line \in Lines : Prompt(line)

SpecPrompt == InitPrompt /\ [][NextPrompt]_vars

\* write_migration_csv called on its own with any client list and any mapping.
InitCsv ==
    /\ pc = "open"
    /\ caller = "direct"
    /\ output = StaleFile
    /\ network_id = "N1"
    /\ upstream = {}
    /\ timespan = 86400
    /\ per_page = PerPage
    /\ unique_vlans = {}
    /\ todo = <<>>
    /\ w_clients \in BoundedSeq(ClientRecords, MaxClients)
    /\ vlan_to_segment \in Mappings
    /\ Fresh

NextCsv ==
    \/ OpenFile
    \/ WriteClient

SpecCsv == InitCsv /\ [][NextCsv]_vars

(***************************************************************************)
(* Vocabulary of the properties, stated on the records themselves.         *)
(***************************************************************************)
PairOf(c) == <<c.mac, c.vlan>>

HasPort(c) == c.switchport # None /\ c.switchport # Some("")

Writing == pc \in {"write", "done"}

SrcClient(k) == w_clients[src[k]]

SrcIndices == {src[k] : k \in DOMAIN src}

RECURSIVE Concat(_)
Concat(ps) == IF ps = <<>> THEN <<>> ELSE Head(ps) \o Concat(Tail(ps))

LastMac(page) == page[Len(page)].mac

\* t is `line` without its leading and trailing whitespace.
IsTrimOf(t, line) ==
    /\ t = <<>> \/ (t[1] \notin Whitespace /\ t[Len(t)] \notin Whitespace)
    /\ \E a \in 0..Len(line) :
          /\ a + Len(t) <= Len(line)
          /\ SubSeq(line, a + 1, a + Len(t)) = t
          /\ \A i \in 1..Len(line) :
                (i <= a \/ i > a + Len(t)) => line[i] \in Whitespace

PromptedVlans == {prompts[k][1] : k \in DOMAIN prompts}

\* The VLANs carried by the wired clients of the retrieved list.
WiredVlans ==
    {all_clients[i].vlan[1] :
        i \in {j \in DOMAIN all_clients :
                 HasPort(all_clients[j]) /\ all_clients[j].vlan # None}}

Untouched == ~opened /\ output \in {NoFile, StaleFile}

(***************************************************************************)
(* Properties of write_migration_csv (SpecCsv).                            *)
(***************************************************************************)
\* C1: at every step of the write loop, `seen` is exactly the set of
\* (MAC, VLAN) pairs of the rows written so far, each data row carries the
\* MAC of the client it came from, and no two data rows come from clients
\* with the same (MAC, VLAN) pair; an absent VLAN is one VLAN value.
C1_UniquePairs ==
    Writing =>
        /\ Len(output.rows) = Len(src) + 1
        /\ \A k \in DOMAIN src :
              src[k] \in 1..idx /\ output.rows[k + 1][1] = SrcClient(k).mac
        /\ seen = {PairOf(SrcClient(k)) : k \in DOMAIN src}
        /\ \A j, k \in DOMAIN src :
              j # k => PairOf(SrcClient(j)) # PairOf(SrcClient(k))

\* A finished write with rows for (X, absent) and (X, 0) and a skipped duplicate.
C1_Witness ==
    /\ pc = "done"
    /\ \E j, k \in DOMAIN src :
          /\ SrcClient(j).mac = SrcClient(k).mac
          /\ SrcClient(j).vlan = None
          /\ SrcClient(k).vlan = Some(0)
    /\ \E i \in DOMAIN w_clients :
          HasPort(w_clients[i]) /\ i \notin SrcIndices

\* C6: no row comes from a client whose switchport is absent or empty, and
\* such a client never enters `seen`: every wired client the loop has taken
\* has a row for its pair, written from it or from an earlier wired client.
C6_OnlyWiredRows ==
    Writing =>
        /\ \A k \in DOMAIN src : HasPort(SrcClient(k))
        /\ seen \subseteq
              {PairOf(w_clients[i]) : i \in {j \in 1..idx : HasPort(w_clients[j])}}
        /\ \A i \in 1..idx :
              HasPort(w_clients[i]) =>
                  \E k \in DOMAIN src :
                      /\ src[k] <= i
                      /\ PairOf(SrcClient(k)) = PairOf(w_clients[i])

\* A wireless client, one with an empty switchport, and a later wired client
\* with the pair of the wireless one, which got its row.
C6_Witness ==
    /\ pc = "done"
    /\ \E i, j \in DOMAIN w_clients :
          /\ i < j
          /\ w_clients[i].switchport = None
          /\ PairOf(w_clients[i]) = PairOf(w_clients[j])
          /\ j \in SrcIndices
    /\ \E i \in DOMAIN w_clients : w_clients[i].switchport = Some("")

\* C8: in every row written the MAC field is the client's MAC and the segment
\* field is the mapping's value for the client's VLAN when that VLAN is a key
\* of the mapping, the empty string otherwise; a wired client with an absent
\* or unmapped VLAN still has its row.
C8_SegmentField ==
    Writing =>
        /\ \A k \in DOMAIN src :
              LET c == SrcClient(k)
                  row == output.rows[k + 1]
              IN  /\ row[1] = c.mac
                  /\ row[2] = IF c.vlan # None /\ c.vlan[1] \in DOMAIN vlan_to_segment
                              THEN vlan_to_segment[c.vlan[1]]
                              ELSE <<>>
        /\ \A i \in 1..idx :
              LET c == w_clients[i] IN
              (HasPort(c) /\ (c.vlan = None \/ c.vlan[1] \notin DOMAIN vlan_to_segment))
                  => \E k \in DOMAIN src :
                        /\ PairOf(SrcClient(k)) = PairOf(c)
                        /\ output.rows[k + 1][2] = <<>>

\* Rows for a mapped VLAN, for an absent VLAN and for an unmapped VLAN.
C8_Witness ==
    /\ pc = "done"
    /\ \E k \in DOMAIN src :
          /\ SrcClient(k).vlan # None
          /\ SrcClient(k).vlan[1] \in DOMAIN vlan_to_segment
          /\ output.rows[k + 1][2] # <<>>
    /\ \E k \in DOMAIN src : SrcClient(k).vlan = None
    /\ \E k \in DOMAIN src :
          /\ SrcClient(k).vlan # None
          /\ SrcClient(k).vlan[1] \notin DOMAIN vlan_to_segment

\* C9: the data rows are the clients taken so far restricted to wired clients
\* and to the first occurrence of each (MAC, VLAN) pair, in list order, after
\* the header row.
C9_FirstOccurrenceOrder ==
    Writing =>
        LET First == {i \in 1..idx :
                        /\ HasPort(w_clients[i])
                        /\ \A j \in 1..(i - 1) :
                              HasPort(w_clients[j]) =>
                                  PairOf(w_clients[j]) # PairOf(w_clients[i])}
        IN  /\ SrcIndices = First
            /\ \A j, k \in DOMAIN src : j < k => src[j] < src[k]
            /\ Len(output.rows) = Len(src) + 1
            /\ output.rows[1] = Header
            /\ \A k \in DOMAIN src : output.rows[k + 1][1] = SrcClient(k).mac
            /\ pc = "done" => idx = Len(w_clients)

\* Three wired clients, the second a repeat of the first: rows from 1 and 3.
C9_Witness ==
    /\ pc = "done"
    /\ Len(w_clients) = 3
    /\ src = <<1, 3>>
    /\ HasPort(w_clients[2])

(***************************************************************************)
(* Properties of prompt_for_segments (SpecPrompt).                         *)
(***************************************************************************)
\* C7: the prompts are issued in strictly ascending order of VLAN id, one per
\* VLAN of the given set; the mapping holds, for each VLAN prompted, the line
\* entered at its prompt without leading and trailing whitespace (an empty
\* line gives the empty string); on return the keys are exactly the given set.
C7_PromptOrder ==
    /\ \A j, k \in DOMAIN prompts : j < k => prompts[j][1] < prompts[k][1]
    /\ PromptedVlans \subseteq unique_vlans
    /\ DOMAIN mapping = PromptedVlans
    /\ \A k \in DOMAIN prompts : IsTrimOf(mapping[prompts[k][1]], prompts[k][2])
    /\ \A k \in DOMAIN prompts : prompts[k][2] = <<>> => mapping[prompts[k][1]] = <<>>
    /\ pc = "prompt" => todo # <<>>
    /\ pc = "returned" =>
          /\ PromptedVlans = unique_vlans
          /\ Len(prompts) = Cardinality(unique_vlans)

\* Three VLANs prompted for: a line with a leading tab, a line with a trailing
\* carriage return and a line of whitespace only.
C7_Witness ==
    /\ pc = "returned"
    /\ unique_vlans = {0, 2, 10}
    /\ \E k \in DOMAIN prompts :
          prompts[k][2] = <<9, 97>> /\ mapping[prompts[k][1]] = <<97>>
    /\ \E k \in DOMAIN prompts :
          prompts[k][2] = <<97, 13>> /\ mapping[prompts[k][1]] = <<97>>
    /\ \E k \in DOMAIN prompts :
          prompts[k][2] = <<32, 9>> /\ mapping[prompts[k][1]] = <<>>

(***************************************************************************)
(* Properties of get_all_clients (SpecFetch, FairSpecFetch).               *)
(***************************************************************************)
C2_Safe ==
    /\ Len(requests) = Len(pages) + (IF pc = "http_error" THEN 1 ELSE 0)
    /\ \A i \in 1..(Len(pages) - 1) : Len(pages[i]) >= per_page
    /\ pc = "get_all_clients" =>
          /\ \A i \in DOMAIN pages : Len(pages[i]) >= per_page
          /\ clients = Concat(pages)
    /\ pc = "returned" =>
          /\ pages # <<>>
          /\ Len(pages[Len(pages)]) < per_page
          /\ all_clients = Concat(pages)

\* C2: the loop stops at the first page with fewer than per_page records (an
\* empty page included), has issued exactly one request per page fetched, and
\* returns the concatenation of the pages in fetch order; it always leaves the
\* loop once the upstream runs out of full pages.
C2_PaginationTerminates == []C2_Safe /\ <>(pc # "get_all_clients")

\* A full page of 2 then a page of 1 with per_page = 2: 2 requests, 3 records.
C2_Witness ==
    /\ pc = "returned"
    /\ per_page = 2
    /\ Len(requests) = 2
    /\ Len(pages[1]) = 2
    /\ Len(pages[2]) = 1
    /\ Len(all_clients) = 3

\* C3: the first request carries no startingAfter, every later request
\* carries the MAC of the last record of the page fetched just before it, and
\* timespan and perPage are those of the call on every request.
C3_Cursor ==
    \A i \in DOMAIN requests :
        /\ requests[i].kind = "clients"
        /\ requests[i].timespan = Some(timespan)
        /\ requests[i].perPage = Some(per_page)
        /\ requests[i].startingAfter =
              IF i = 1 THEN None ELSE Some(LastMac(pages[i - 1]))

\* Three requests, after two pages that end in different MACs and a second
\* page whose first and last MACs differ.
C3_Witness ==
    /\ Len(requests) >= 3
    /\ Len(pages) >= 2
    /\ LastMac(pages[1]) # LastMac(pages[2])
    /\ pages[2][1].mac # LastMac(pages[2])

(***************************************************************************)
(* Properties of a run of main() (Spec).                                   *)
(***************************************************************************)
\* C4: when the network id is not among the ids of the organization's
\* networks the run is in an error state with a non-zero exit status right
\* after the single validation request: no client-list request, no prompt,
\* the output file neither created nor overwritten.
C4_NotFoundFailsFast ==
    /\ (pc # "validate" /\ network_id \notin networks) =>
          /\ pc \in {"not_found", "http_error"}
          /\ ExitCode(pc) > 0
          /\ requests = <<NetworksRequest>>
          /\ pages = <<>>
          /\ prompts = <<>>
          /\ Untouched
    /\ pc = "not_found" => network_id \notin networks

\* Networks N1 and N2, --network-id N3, a file left by an earlier run.
C4_Witness ==
    /\ pc = "not_found"
    /\ network_id = "N3"
    /\ networks = {"N1", "N2"}
    /\ output = StaleFile

\* C5: a failed response ends the run at that request (every earlier request
\* was answered, none follows): nothing was returned to main, no prompt was
\* issued and the output file was not opened.  The file is opened, and a
\* prompt issued, only when the validation and every page request succeeded.
C5_NoPartialOutput ==
    /\ pc = "http_error" =>
          /\ Untouched
          /\ prompts = <<>>
          /\ all_clients = <<>>
          /\ w_clients = <<>>
          /\ Len(requests) = 1 \/ Len(requests) = Len(pages) + 2
          /\ ExitCode(pc) > 0
    /\ (opened \/ prompts # <<>>) =>
          /\ network_id \in networks
          /\ Len(requests) = Len(pages) + 1
          /\ pc \notin {"http_error", "not_found"}
    /\ opened => pc \in {"write", "done"}

\* The second page request fails after a full first page, with an old file.
C5_Witness ==
    /\ pc = "http_error"
    /\ Len(pages) = 1
    /\ clients # <<>>
    /\ Len(requests) = 3
    /\ output = StaleFile

\* C10: once the prompts are over, the VLANs prompted for are exactly the
\* VLANs of the wired clients of the retrieved list, and the mapping holds the
\* trimmed line of each; the file is opened only then.  Every row of a client
\* with a VLAN carries the segment entered for that VLAN, the empty default is
\* taken only for clients without a VLAN, and at the end every mapped VLAN is
\* the VLAN of some row.
C10_PromptedVlans ==
    /\ pc \in {"open", "write", "done"} =>
          /\ PromptedVlans = WiredVlans
          /\ Len(prompts) = Cardinality(WiredVlans)
          /\ DOMAIN vlan_to_segment = WiredVlans
          /\ \A k \in DOMAIN prompts :
                IsTrimOf(vlan_to_segment[prompts[k][1]], prompts[k][2])
    /\ opened => pc \in {"write", "done"}
    /\ pc \in {"validate", "get_all_clients", "prompt"} => ~opened
    /\ \A k \in DOMAIN src :
          LET c == SrcClient(k)
              row == output.rows[k + 1]
          IN  IF c.vlan = None
              THEN row[2] = <<>>
              ELSE /\ c.vlan[1] \in DOMAIN vlan_to_segment
                   /\ row[2] = vlan_to_segment[c.vlan[1]]
    /\ pc = "done" =>
          \A v \in DOMAIN vlan_to_segment :
              \E k \in DOMAIN src : SrcClient(k).vlan = Some(v)

\* A finished run: a wired client on VLAN 0, VLAN 1 on a wireless client only.
C10_Witness ==
    /\ pc = "done"
    /\ \E i \in DOMAIN all_clients :
          HasPort(all_clients[i]) /\ all_clients[i].vlan = Some(0)
    /\ \E i \in DOMAIN all_clients :
          ~HasPort(all_clients[i]) /\ all_clients[i].vlan = Some(1)
    /\ PromptedVlans = {0}
    /\ vlan_to_segment[0] = <<97>>

====
